---- MODULE Spec2Model ----
(***************************************************************************)
(* A state-machine model of journal_t (src/src/journal.cc): the known-     *)
(* entity policy (register_account, register_payee, register_commodity,   *)
(* register_metadata), the metadata checks, the transaction pipeline       *)
(* (add_xact, remove_xact), the xdata sweep (has_xdata, clear_xdata) and   *)
(* both overloads of read().                                               *)
(*                                                                         *)
(* Objects are values: an account is [name |-> n], a value_t is            *)
(* [type |-> t, text |-> s], an optional<T> or nullable pointer is the     *)
(* empty sequence (none / NULL) or a one-element sequence.  A call is one  *)
(* action; what it returned, raised and logged is kept in `last`.          *)
(***************************************************************************)
EXTENDS Integers, Sequences, FiniteSets, TLC

VARIABLES
    checking_style,               \* CHECK_PERMISSIVE | CHECK_WARNING | CHECK_ERROR
    force_checking,
    fixed_accounts,
    fixed_payees,
    fixed_commodities,
    fixed_metadata,
    account_flags,                \* the accounts carrying ACCOUNT_KNOWN
    commodity_flags,              \* the commodities carrying COMMODITY_KNOWN
    known_tags,
    master,                       \* the account tree: name -> account in it
    made,                         \* name -> the account_t objects made so far
    account_aliases,              \* accounts_map: name -> account
    payees_for_unknown_accounts,  \* list of (mask, account)
    tag_check_exprs,              \* multimap: key -> list of (expr, kind)
    payee_mappings,               \* list of (mask, payee)
    xacts,                        \* xacts_list
    auto_xacts,
    period_xacts,
    checksum_map,                 \* UUID string -> xact
    xact_journal,                 \* the xacts whose journal pointer is this journal
    xdata,                        \* the items and accounts that carry xdata
    configured,                   \* the session has set the checking options
    read_pc,                      \* position of the running read() call
    clear_calls,                  \* clear_xdata() calls made by the running read()
    sources,                      \* the files read() took transactions from
    last                          \* the last completed call

vars ==
    << checking_style, force_checking, fixed_accounts, fixed_payees,
       fixed_commodities, fixed_metadata, account_flags, commodity_flags,
       known_tags, master, made, account_aliases, payees_for_unknown_accounts,
       tag_check_exprs, payee_mappings, xacts, auto_xacts, period_xacts, checksum_map,
       xact_journal, xdata, configured, read_pc, clear_calls, sources, last >>

tree_vars == << master, made >>

policy_vars ==
    << fixed_accounts, fixed_payees, fixed_commodities, fixed_metadata,
       account_flags, commodity_flags, known_tags >>

option_vars ==
    << checking_style, force_checking, configured >>

table_vars ==
    << account_aliases, payees_for_unknown_accounts, tag_check_exprs,
       payee_mappings >>

xact_vars ==
    << xacts, checksum_map, xact_journal >>

item_vars ==
    << auto_xacts, period_xacts, xdata >>

read_vars ==
    << read_pc, clear_calls, sources >>

----------------------------------------------------------------------------
(* Bounds and input pools *)

MaxXacts == 3

MaxMappings == 2

MaxChecks == 2

MaxAutoXacts == 2

MaxParsed == 2

MaxSources == 1

MaxAccountObjects == 2

Styles == {"CHECK_PERMISSIVE", "CHECK_WARNING", "CHECK_ERROR"}

States == {"UNCLEARED", "CLEARED", "PENDING"}

AccountNames == {"Unknown", "Food", "f"}

Payees == {"Grocer", "Gas"}

Masks == {"Gro", "G"}

Commodities == {"EUR", "USD"}

Keys == {"Project", "UUID"}

Exprs == {"value != bad"}

CheckKinds == {"EXPR_ASSERTION", "EXPR_WARNING"}

None == << >>

Some(v) == << v >>

NoEvents == << >>

----------------------------------------------------------------------------
(* Values, accounts, contexts *)

\* A value_t: its type and its printed text.  NULL_VALUE is the VOID value.
Value(type, text) == [type |-> type, text |-> text]

NULL_VALUE == Value("VOID", "")

is_null(value) == value.type = "VOID"

\* value_t::to_string(): the printed text, whatever the type, so the
\* INTEGER 7 and the STRING "7" print alike.
to_string(value) == value.text

\* An account_t object: its name and which of the objects made under that
\* name it is (a removed account and its successor in the tree are two).
AccountObject(name, gen) == [name |-> name, gen |-> gen]

\* The first account made under a name.
Account(name) == AccountObject(name, 0)

fullname(account) == account.name

\* A new account_t: no child accounts yet.
EmptyTree == [n \in AccountNames |-> None]

\* new account_t(name): an object that is none of those made before, held
\* by no table and carrying no flag.
NewAccount(name) == AccountObject(name, made[name])

\* The objects made, once a caller has handed over the account given: one
\* more when the caller made it for the call.
made_after(acct) ==
    IF acct.gen = made[acct.name] THEN [made EXCEPT ![acct.name] = @ + 1]
    ELSE made

\* master->find_account(name, auto_create) makes an account.
find_creates(name, auto_create) == master[name] = None /\ auto_create

\* Lines 105-108, master->find_account(name, auto_create): the account of
\* that name in the tree; when the tree has none, a new one with
\* auto_create and NULL without.
account_found(name, auto_create) ==
    IF master[name] # None THEN Some(AccountObject(name, master[name][1]))
    ELSE IF auto_create THEN Some(NewAccount(name))
    ELSE None

\* The tree once find_account(name, auto_create) has returned.
tree_after_find(name, auto_create) ==
    IF find_creates(name, auto_create)
    THEN [master EXCEPT ![name] = Some(made[name])]
    ELSE master

\* The objects made once find_account(name, auto_create) has returned.
made_after_find(name, auto_create) ==
    IF find_creates(name, auto_create)
    THEN [made EXCEPT ![name] = @ + 1]
    ELSE made

\* mask_t::match: the mask is found in the text.
Match(mask, text) ==
    \/ mask = "Gro" /\ text = "Grocer"
    \/ mask = "G" /\ text \in {"Grocer", "Gas"}

\* A variant<int, xact_t *, post_t *>: which() and the item's _state.
Context(which, state) == [which |-> which, state |-> state]

DeclContext == Context(0, "NONE")

ItemContexts == { Context(w, s) : w \in {1, 2}, s \in States }

Contexts == {DeclContext} \cup ItemContexts

\* A post_t * as register_account reads it: NULL, or its _state and the
\* payee of its xact.
Post(state, payee) == [state |-> state, payee |-> payee]

PostArgs == {None} \cup { Some(Post(s, p)) : s \in States, p \in Payees }

\* The record of the last call: its name, arguments, return value (none when
\* it raised or returns nothing), exception, log, and what held before it.
Call(op, args, ret, raised, events, pre) ==
    [op |-> op, args |-> args, ret |-> ret, raised |-> raised,
     events |-> events, pre |-> pre]

NoCall == Call("none", None, None, "none", NoEvents, None)

\* The process is gone once a call has faulted (a NULL dereference).
Alive == last.raised # "fault"

Warning(what, whom) == << "warning", what, whom >>

Error(what, whom) == << "error", what, whom >>

----------------------------------------------------------------------------
(* journal_t::initialize and the options the session sets *)

Init ==
    /\ fixed_accounts = FALSE
    /\ fixed_payees = FALSE
    /\ fixed_commodities = FALSE
    /\ fixed_metadata = FALSE
    /\ force_checking = FALSE
    /\ checking_style = "CHECK_PERMISSIVE"
    /\ account_flags = {}
    /\ commodity_flags = {}
    /\ known_tags = {}
    /\ master = EmptyTree
    /\ made = [n \in AccountNames |-> 0]
    /\ account_aliases = << >>
    /\ payees_for_unknown_accounts = << >>
    /\ tag_check_exprs = [k \in Keys |-> << >>]
    /\ payee_mappings = << >>
    /\ xacts = << >>
    /\ auto_xacts = << >>
    /\ period_xacts = << >>
    /\ checksum_map = << >>
    /\ xact_journal = {}
    /\ xdata = {}
    /\ configured = FALSE
    /\ read_pc = [at |-> "idle", count |-> 0, steps |-> 0, path |-> None]
    /\ clear_calls = 0
    /\ sources = << >>
    /\ last = NoCall

\* The session sets checking_style and force_checking once, before anything
\* is read into the journal.
Configure(style, force) ==
    /\ Alive
    /\ ~configured
    /\ configured' = TRUE
    /\ checking_style' = style
    /\ force_checking' = force
    /\ last' = Call("Configure", << style, force >>, None, "none", NoEvents, None)
    /\ UNCHANGED tree_vars
    /\ UNCHANGED << policy_vars, table_vars, xact_vars, item_vars, read_vars >>

\* Lines 82-93 on a journal in use: a new, empty master in place of the old
\* one, the four fixed flags, force_checking and checking_style back to
\* their defaults; bucket and was_loaded are not read by any call here.
\* The accounts of the old tree live on where aliases and mappings hold
\* them.
initialize ==
    /\ Alive
    /\ configured
    /\ master' = EmptyTree
    /\ fixed_accounts' = FALSE
    /\ fixed_payees' = FALSE
    /\ fixed_commodities' = FALSE
    /\ fixed_metadata' = FALSE
    /\ force_checking' = FALSE
    /\ checking_style' = "CHECK_PERMISSIVE"
    /\ last' = Call("initialize", None, None, "none", NoEvents,
                    [master |-> master, fixed |-> fixed_accounts])
    /\ UNCHANGED << account_flags, commodity_flags, known_tags, made, configured,
                    table_vars, xact_vars, item_vars, read_vars >>

\* The account objects a caller can hold or make under a name: those made
\* so far and the next one.
AccountObjects(name) ==
    { AccountObject(name, g) :
        g \in { h \in 0..made[name] : h < MaxAccountObjects } }

\* Lines 95-98: master->add_account(acct), an insert into the map of
\* children by the account's name, which keeps an entry already there.
add_account(acct) ==
    /\ Alive
    /\ configured
    /\ acct \in AccountObjects(acct.name)
    /\ master' =
           [master EXCEPT ![acct.name] = IF @ = None THEN Some(acct.gen) ELSE @]
    /\ made' = made_after(acct)
    /\ last' = Call("add_account", << acct >>, None, "none", NoEvents,
                    [master |-> master])
    /\ UNCHANGED << policy_vars, option_vars, table_vars, xact_vars, item_vars,
                    read_vars >>

\* Lines 105-108 called by itself: the account found or made, NULL when the
\* tree has none and auto_create is false.
find_account(name, auto_create) ==
    /\ Alive
    /\ configured
    /\ find_creates(name, auto_create) => made[name] < MaxAccountObjects
    /\ master' = tree_after_find(name, auto_create)
    /\ made' = made_after_find(name, auto_create)
    /\ last' = Call("find_account", << name, auto_create >>,
                    Some(account_found(name, auto_create)), "none", NoEvents,
                    [master |-> master])
    /\ UNCHANGED << policy_vars, option_vars, table_vars, xact_vars, item_vars,
                    read_vars >>

\* Lines 100-103: master->remove_account(acct), an erase from the map of
\* children by the account's name; true when an entry was erased.
remove_account(acct) ==
    /\ Alive
    /\ configured
    /\ master' = [master EXCEPT ![acct.name] = None]
    /\ last' = Call("remove_account", << acct >>,
                    Some(master[acct.name] # None), "none", NoEvents,
                    [master |-> master])
    /\ UNCHANGED made
    /\ UNCHANGED << policy_vars, option_vars, table_vars, xact_vars, item_vars,
                    read_vars >>

\* An alias directive: account_aliases.insert(name -> account), the account
\* being one made before or one made for the directive.
add_alias(name, account) ==
    /\ Alive
    /\ configured
    /\ name \notin DOMAIN account_aliases
    /\ account \in AccountObjects(account.name)
    /\ account_aliases' = account_aliases @@ (name :> account)
    /\ made' = made_after(account)
    /\ last' = Call("add_alias", << name, account >>, None, "none", NoEvents, None)
    /\ UNCHANGED master
    /\ UNCHANGED << policy_vars, option_vars, payees_for_unknown_accounts,
                    tag_check_exprs, payee_mappings, xact_vars, item_vars,
                    read_vars >>

\* A payee directive of an account: payees_for_unknown_accounts.push_back,
\* the account being one made before or one made for the directive.
add_payee_mapping(mask, account) ==
    /\ Alive
    /\ configured
    /\ Len(payees_for_unknown_accounts) < MaxMappings
    /\ account \in AccountObjects(account.name)
    /\ payees_for_unknown_accounts' =
           Append(payees_for_unknown_accounts, << mask, account >>)
    /\ made' = made_after(account)
    /\ last' = Call("add_payee_mapping", << mask, account >>, None, "none", NoEvents, None)
    /\ UNCHANGED master
    /\ UNCHANGED << policy_vars, option_vars, account_aliases,
                    tag_check_exprs, payee_mappings, xact_vars, item_vars,
                    read_vars >>

\* A check or assert directive of a tag: tag_check_exprs.insert(key -> ...).
add_tag_check(key, expr, kind) ==
    /\ Alive
    /\ configured
    /\ Len(tag_check_exprs[key]) < MaxChecks
    /\ tag_check_exprs' =
           [tag_check_exprs EXCEPT ![key] = Append(@, << expr, kind >>)]
    /\ last' = Call("add_tag_check", << key, expr, kind >>, None, "none", NoEvents, None)
    /\ UNCHANGED tree_vars
    /\ UNCHANGED << policy_vars, option_vars, account_aliases,
                    payees_for_unknown_accounts, payee_mappings, xact_vars,
                    item_vars, read_vars >>

\* A payee directive with an alias: payee_mappings.push_back(mask, payee).
add_payee_alias(mask, payee) ==
    /\ Alive
    /\ configured
    /\ Len(payee_mappings) < MaxMappings
    /\ payee_mappings' = Append(payee_mappings, << mask, payee >>)
    /\ last' = Call("add_payee_alias", << mask, payee >>, None, "none", NoEvents, None)
    /\ UNCHANGED tree_vars
    /\ UNCHANGED << policy_vars, option_vars, account_aliases,
                    payees_for_unknown_accounts, tag_check_exprs, xact_vars,
                    item_vars, read_vars >>

----------------------------------------------------------------------------
(* journal_t::register_account *)

\* Lines 121-125: the alias table is not empty and has the name.
aliased(name) ==
    Cardinality(DOMAIN account_aliases) > 0 /\ name \in DOMAIN account_aliases

\* Lines 121-127: the alias table when it is not empty, else the tree.
resolve_account(name) ==
    IF aliased(name) THEN account_aliases[name]
    ELSE account_found(name, TRUE)[1]

\* Lines 126-127: the tree after the resolution, find_account being called
\* only when the alias table gave nothing.
tree_after_resolve(name) ==
    IF aliased(name) THEN master ELSE tree_after_find(name, TRUE)

\* Lines 126-127: the objects made after the resolution.
made_after_resolve(name) ==
    IF aliased(name) THEN made ELSE made_after_find(name, TRUE)

first_mapping_last_wins(mappings, payee) ==
    LET hits == { i \in 1..Len(mappings) : Match(mappings[i][1], payee) }
    IN  IF hits = {} THEN None
        ELSE Some(mappings[CHOOSE i \in hits : \A j \in hits : j <= i][2])

\* Lines 130-135: the account of the first mapping whose mask matches.
first_mapping(mappings, payee) ==
    LET hits == { i \in 1..Len(mappings) : Match(mappings[i][1], payee) }
    IN  IF hits = {} THEN None
        ELSE Some(mappings[CHOOSE i \in hits : \A j \in hits : i <= j][2])

\* Lines 129-136, given the payee read through post->xact.
substitute_account(result, payee) ==
    IF result.name = "Unknown"
    THEN LET hit == first_mapping(payees_for_unknown_accounts, payee)
         IN  IF hit = None THEN result ELSE hit[1]
    ELSE result

\* Line 131 dereferences post; with post NULL that is undefined behaviour.
dereferences_null(result, post) ==
    /\ post = None
    /\ result.name = "Unknown"
    /\ Len(payees_for_unknown_accounts) > 0

account_learns_any_state(post) == ~ fixed_accounts

declared_fixed_never(fixed) == fixed

declared_fixed_always(fixed) == TRUE

\* Lines 140-141, 200-201, 257-258: a declaration of an entity not yet
\* known fixes the kind when force_checking is set.
declared_fixed(fixed) == IF force_checking THEN TRUE ELSE fixed

\* Line 144.
account_learns(post) == ~ fixed_accounts /\ post[1].state # "UNCLEARED"

unknown_account_always_throws(style) ==
    IF style = "CHECK_WARNING" THEN "warning" ELSE "parse_error"

\* Lines 147-153.
unknown_account(style) ==
    IF style = "CHECK_WARNING" THEN "warning"
    ELSE IF style = "CHECK_ERROR" THEN "parse_error"
    ELSE "none"

\* Lines 138-154: [flags, fixed, raised, events] for the account found.
account_rule(result, post) ==
    LET same == [flags |-> account_flags, fixed |-> fixed_accounts,
                 raised |-> "none", events |-> NoEvents]
    IN  IF result \in account_flags THEN same
        ELSE IF post = None
        THEN [same EXCEPT !.fixed = declared_fixed(@),
                          !.flags = @ \cup {result}]
        ELSE IF account_learns(post)
        THEN [same EXCEPT !.flags = @ \cup {result}]
        ELSE LET act == unknown_account(checking_style)
             IN  IF act = "warning"
                 THEN [same EXCEPT !.events =
                           << Warning("Unknown account", fullname(result)) >>]
                 ELSE IF act = "parse_error"
                 THEN [same EXCEPT !.raised = "parse_error", !.events =
                           << Error("Unknown account", fullname(result)) >>]
                 ELSE same

\* The payee line 131 reads: the posting's, or with post NULL whatever the
\* invalid read yields, a fault included.
payee_reads(result, post) ==
    IF post # None THEN {post[1].payee}
    ELSE IF dereferences_null(result, post) THEN {"fault"} \cup Payees
    ELSE {"unread"}

register_account(name, post) ==
    /\ Alive
    /\ configured
    /\ aliased(name) \/ master[name] # None \/ made[name] < MaxAccountObjects
    /\ master' = tree_after_resolve(name)
    /\ made' = made_after_resolve(name)
    /\ LET resolved == resolve_account(name)
       IN  \E payee \in payee_reads(resolved, post) :
             IF payee = "fault"
             THEN /\ last' = Call("register_account", << name, post >>, None, "fault",
                                  NoEvents, [resolved |-> resolved])
                  /\ UNCHANGED << account_flags, fixed_accounts >>
             ELSE LET result == substitute_account(resolved, payee)
                      rule == account_rule(result, post)
                  IN  /\ account_flags' = rule.flags
                      /\ fixed_accounts' = rule.fixed
                      /\ last' = Call("register_account", << name, post >>,
                                      IF rule.raised = "none" THEN Some(result) ELSE None,
                                      rule.raised, rule.events,
                                      [resolved |-> resolved,
                                       result |-> result,
                                       known |-> result \in account_flags,
                                       fixed |-> fixed_accounts,
                                       undefined |-> dereferences_null(resolved, post)])
    /\ UNCHANGED << fixed_payees, fixed_commodities, fixed_metadata,
                    commodity_flags, known_tags, option_vars, table_vars,
                    xact_vars, item_vars, read_vars >>

----------------------------------------------------------------------------
(* journal_t::register_payee *)

\* Lines 184-191: the payee of the first mapping whose mask matches the
\* name, the name itself when none matches or the payee found is empty.
mapped_payee(name) ==
    LET hit == first_mapping(payee_mappings, name)
    IN  IF hit = None \/ hit[1] = "" THEN name ELSE hit[1]

\* Lines 159-192; the rule for payees (lines 164-182) is compiled out.
register_payee(name) ==
    /\ Alive
    /\ configured
    /\ last' = Call("register_payee", << name >>, Some(mapped_payee(name)), "none",
                    NoEvents, [fixed |-> fixed_payees])
    /\ UNCHANGED tree_vars
    /\ UNCHANGED << policy_vars, option_vars, table_vars, xact_vars, item_vars,
                    read_vars >>

----------------------------------------------------------------------------
(* journal_t::register_commodity *)

commodity_learns_any_state(context) ==
    ~ fixed_commodities /\ context.which \in {1, 2}

\* Lines 204-208.
commodity_learns(context) ==
    /\ ~ fixed_commodities
    /\ \/ context.which = 1 /\ context.state # "UNCLEARED"
       \/ context.which = 2 /\ context.state # "UNCLEARED"

\* Lines 211-216.
unknown_commodity(style) ==
    IF style = "CHECK_WARNING" THEN "warning"
    ELSE IF style = "CHECK_ERROR" THEN "parse_error"
    ELSE "none"

\* Lines 198-217: [flags, fixed, raised, events].
commodity_rule(comm, context) ==
    LET same == [flags |-> commodity_flags, fixed |-> fixed_commodities,
                 raised |-> "none", events |-> NoEvents]
    IN  IF comm \in commodity_flags THEN same
        ELSE IF context.which = 0
        THEN [same EXCEPT !.fixed = declared_fixed(@),
                          !.flags = @ \cup {comm}]
        ELSE IF commodity_learns(context)
        THEN [same EXCEPT !.flags = @ \cup {comm}]
        ELSE LET act == unknown_commodity(checking_style)
             IN  IF act = "warning"
                 THEN [same EXCEPT !.events = << Warning("Unknown commodity", comm) >>]
                 ELSE IF act = "parse_error"
                 THEN [same EXCEPT !.raised = "parse_error",
                                   !.events = << Error("Unknown commodity", comm) >>]
                 ELSE same

register_commodity(comm, context) ==
    /\ Alive
    /\ configured
    /\ LET rule == commodity_rule(comm, context)
       IN  /\ commodity_flags' = rule.flags
           /\ fixed_commodities' = rule.fixed
           /\ last' = Call("register_commodity", << comm, context >>, None,
                           rule.raised, rule.events,
                           [known |-> comm \in commodity_flags,
                            fixed |-> fixed_commodities])
    /\ UNCHANGED tree_vars
    /\ UNCHANGED << fixed_accounts, fixed_payees, fixed_metadata, account_flags,
                    known_tags, option_vars, table_vars, xact_vars, item_vars,
                    read_vars >>

----------------------------------------------------------------------------
(* check_metadata and journal_t::register_metadata *)

\* expr_t::calc(val_scope).to_boolean(): the expression over the tag's value.
Calc(expr, value) ==
    IF expr = "value != bad" THEN value.text # "bad" ELSE TRUE

failed_check_always_throws(kind) == "parse_error"

\* Lines 239-245: what a check that came out false does.
failed_check(kind) ==
    IF kind = "EXPR_ASSERTION" THEN "parse_error" ELSE "warning"

\* One call after another inside a handler: an exception of the first ends
\* the handler there; otherwise the second goes on from what the first left
\* and the events of both are in order.
AndThen(one, rest) ==
    IF one.raised # "none" THEN one
    ELSE [f \in DOMAIN one \cup DOMAIN rest |->
              IF f = "events" THEN one.events \o rest.events
              ELSE IF f \in DOMAIN rest THEN rest[f] ELSE one[f]]

\* Lines 238-245, one (expr, kind) of the key: [raised, events].
check_one(check, key, value) ==
    LET calc == << "calc", key, check[1], check[2] >>
    IN  IF Calc(check[1], value)
        THEN [raised |-> "none", events |-> << calc >>]
        ELSE IF failed_check(check[2]) = "parse_error"
        THEN [raised |-> "parse_error",
              events |-> << calc, Error("Metadata assertion failed", key) >>]
        ELSE [raised |-> "none",
              events |-> << calc, Warning("Metadata check failed", key) >>]

\* Lines 230-247 from the i-th check of the key on: [raised, events].
\* Building val_scope with context.which() = 0 is boost::get<post_t *> on
\* an int, which throws bad_get.
RECURSIVE check_loop(_, _, _, _, _)
check_loop(checks, i, key, value, context) ==
    IF i > Len(checks) THEN [raised |-> "none", events |-> NoEvents]
    ELSE IF context.which = 0
    THEN [raised |-> "bad_get", events |-> NoEvents]
    ELSE AndThen(check_one(checks[i], key, value),
                 check_loop(checks, i + 1, key, value, context))

\* Lines 221-248.
check_metadata(key, value, context) ==
    check_loop(tag_check_exprs[key], 1, key, value, context)

metadata_learns_when_fixed(fixed, context) ==
    \/ context.which = 1 /\ context.state # "UNCLEARED"
    \/ context.which = 2 /\ context.state # "UNCLEARED"

\* Lines 263-267.
metadata_learns(fixed, context) ==
    /\ ~ fixed
    /\ \/ context.which = 1 /\ context.state # "UNCLEARED"
       \/ context.which = 2 /\ context.state # "UNCLEARED"

\* Lines 270-275.
unknown_tag(style) ==
    IF style = "CHECK_WARNING" THEN "warning"
    ELSE IF style = "CHECK_ERROR" THEN "parse_error"
    ELSE "none"

\* Lines 255-276 on the tags known so far: [tags, fixed, raised, events].
metadata_rule(tags, fixed, key, context) ==
    LET same == [tags |-> tags, fixed |-> fixed,
                 raised |-> "none", events |-> << << "tag", key >> >>]
    IN  IF key \in tags THEN same
        ELSE IF context.which = 0
        THEN [same EXCEPT !.fixed = declared_fixed(@),
                          !.tags = @ \cup {key}]
        ELSE IF metadata_learns(fixed, context)
        THEN [same EXCEPT !.tags = @ \cup {key}]
        ELSE LET act == unknown_tag(checking_style)
             IN  IF act = "warning"
                 THEN [same EXCEPT !.events =
                           @ \o << Warning("Unknown metadata tag", key) >>]
                 ELSE IF act = "parse_error"
                 THEN [same EXCEPT !.raised = "parse_error", !.events =
                           @ \o << Error("Unknown metadata tag", key) >>]
                 ELSE same

metadata_checks_null_too(rule, key, value, context) ==
    AndThen(rule, check_metadata(key, value, context))

\* Lines 278-279 after the rule gave `rule`: the checks of a non-null value.
metadata_checks(rule, key, value, context) ==
    IF is_null(value) THEN rule
    ELSE AndThen(rule, check_metadata(key, value, context))

\* Lines 251-280 on the tags known so far: [tags, fixed, raised, events].
metadata_call(tags, fixed, key, value, context) ==
    metadata_checks(metadata_rule(tags, fixed, key, context), key, value, context)

register_metadata(key, value, context) ==
    /\ Alive
    /\ configured
    /\ LET call == metadata_call(known_tags, fixed_metadata, key, value, context)
       IN  /\ known_tags' = call.tags
           /\ fixed_metadata' = call.fixed
           /\ last' = Call("register_metadata", << key, value, context >>, None,
                           call.raised, call.events,
                           [known |-> key \in known_tags,
                            fixed |-> fixed_metadata])
    /\ UNCHANGED tree_vars
    /\ UNCHANGED << fixed_accounts, fixed_payees, fixed_commodities,
                    account_flags, commodity_flags, option_vars, table_vars,
                    xact_vars, item_vars, read_vars >>

----------------------------------------------------------------------------
(* Transactions *)

Tag(key, value) == << key, value >>

\* The transactions a caller may hand to add_xact and remove_xact.  Each is
\* one object, named by id; metadata is the item's string_map in key order,
\* a tag being (key, optional value).
XactPool ==
    { [id |-> "x1", state |-> "CLEARED", payee |-> "Grocer", temp |-> FALSE,
       metadata |-> << Tag("UUID", Some(Value("STRING", "7"))) >>,
       posts |-> << [state |-> "CLEARED",
                     metadata |-> << Tag("Project", None) >>] >>],
      [id |-> "x2", state |-> "UNCLEARED", payee |-> "Gas", temp |-> FALSE,
       metadata |-> << Tag("Project", Some(Value("STRING", "bad"))),
                       Tag("UUID", Some(Value("STRING", "7"))) >>,
       posts |-> << [state |-> "PENDING",
                     metadata |-> << Tag("Project", Some(Value("STRING", "ok"))) >>] >>],
      [id |-> "x3", state |-> "PENDING", payee |-> "Gas", temp |-> FALSE,
       metadata |-> << Tag("UUID", Some(Value("STRING", "8"))) >>,
       posts |-> << [state |-> "UNCLEARED", metadata |-> << >>],
                    [state |-> "UNCLEARED",
                     metadata |-> << Tag("Project", Some(Value("STRING", "bad"))) >>] >>],
      [id |-> "x4", state |-> "UNCLEARED", payee |-> "Grocer", temp |-> TRUE,
       metadata |-> << Tag("UUID", None) >>,
       posts |-> << [state |-> "UNCLEARED", metadata |-> << >>] >>] }

XactIds == { x.id : x \in XactPool }

XactOf(id) == CHOOSE x \in XactPool : x.id = id

AutoXactPool == { [id |-> "a1", temp |-> FALSE], [id |-> "a2", temp |-> TRUE] }

PeriodXactPool == { [id |-> "p1", temp |-> FALSE] }

\* item_t::get_tag(tag): the value of the tag, none when the tag is absent
\* or carries no value.
get_tag(xact, tag) ==
    LET hits == { i \in 1..Len(xact.metadata) : xact.metadata[i][1] = tag }
    IN  IF hits = {} THEN None ELSE xact.metadata[CHOOSE i \in hits : TRUE][2]

\* item_t metadata entry: the value register_metadata is given (line 297-300).
tag_value(tag) ==
    IF tag[2] # None THEN tag[2][1] ELSE NULL_VALUE

\* Lines 290-301 from the i-th tag on, on the tags known so far:
\* [tags, raised, events].
RECURSIVE check_all_loop(_, _, _, _)
RECURSIVE check_all_next(_, _, _, _)
check_all_loop(tags, metadata, i, context) ==
    IF i > Len(metadata) THEN [tags |-> tags, raised |-> "none", events |-> NoEvents]
    ELSE check_all_next(metadata_call(tags, fixed_metadata, metadata[i][1],
                                      tag_value(metadata[i]), context),
                        metadata, i, context)

\* Lines 290-301: the loop goes on after register_metadata returned `call`.
check_all_next(call, metadata, i, context) ==
    AndThen(call, check_all_loop(call.tags, metadata, i + 1, context))

\* Lines 283-303.
check_all_metadata(tags, item, which) ==
    check_all_loop(tags, item.metadata, 1, Context(which, item.state))

\* Lines 318-319 from the i-th posting on.
RECURSIVE check_posts_loop(_, _, _)
RECURSIVE check_posts_next(_, _, _)
check_posts_loop(tags, posts, i) ==
    IF i > Len(posts) THEN [tags |-> tags, raised |-> "none", events |-> NoEvents]
    ELSE check_posts_next(check_all_metadata(tags, posts[i], 2), posts, i)

\* Lines 317-319: the postings after the i-th, once check_all_metadata of
\* the transaction (i = 0) or of the i-th posting returned `one`.
check_posts_next(one, posts, i) ==
    AndThen(one, check_posts_loop(one.tags, posts, i + 1))

validate_metadata_posts_first(tags, xact) ==
    LET posted == check_posts_loop(tags, xact.posts, 1)
    IN  AndThen(posted, check_all_metadata(posted.tags, xact, 1))

\* Lines 317-319: the xact's own tags, then those of each posting.
validate_metadata(tags, xact) ==
    check_posts_next(check_all_metadata(tags, xact, 1), xact.posts, 0)

\* Lines 342-346: every automated transaction, in list order.
extend_xact(xact) ==
    [i \in 1..Len(auto_xacts) |-> << "extend", auto_xacts[i].id >>]

checksum_insert_overwrites(map, key, id) ==
    [map |-> [k \in DOMAIN map \cup {key} |-> IF k = key THEN id ELSE map[k]],
     second |-> TRUE]

\* Lines 326-327: std::map::insert, which keeps the entry a key already has.
checksum_insert(map, key, id) ==
    IF key \in DOMAIN map
    THEN [map |-> map, second |-> FALSE]
    ELSE [map |-> map @@ (key :> id), second |-> TRUE]

\* Lines 317-339 once check_all_metadata returned `checked`:
\* [ret, raised, events, tags, map, journal, appended].
add_xact_checked(xact, checked) ==
    LET start == [ret |-> None, raised |-> "none", events |-> NoEvents,
                  tags |-> checked.tags, map |-> checksum_map,
                  journal |-> TRUE, appended |-> FALSE]
        before == << << "finalize" >> >> \o extend_xact(xact) \o checked.events
        ref == get_tag(xact, "UUID")
    IN  IF checked.raised # "none"
        THEN [start EXCEPT !.raised = checked.raised, !.events = before]
        ELSE IF ref # None
        THEN LET result == checksum_insert(checksum_map, to_string(ref[1]), xact.id)
                 insert == << "insert", to_string(ref[1]) >>
             IN  IF ~ result.second
                 THEN [start EXCEPT !.journal = FALSE, !.ret = Some(FALSE),
                                    !.events = before \o << insert >>]
                 ELSE [start EXCEPT !.appended = TRUE, !.ret = Some(TRUE),
                                    !.events = before \o
                                        << insert, << "push_back" >> >>,
                                    !.map = result.map]
        ELSE [start EXCEPT !.appended = TRUE, !.ret = Some(TRUE),
                           !.events = before \o << << "push_back" >> >>]

finalize_failed_then_validates(xact) ==
    [add_xact_checked(xact, validate_metadata(known_tags, xact)) EXCEPT
         !.ret = Some(FALSE), !.raised = "none", !.journal = FALSE,
         !.appended = FALSE, !.map = checksum_map]

\* Lines 310-313: finalize() returned false.
finalize_failed(xact) ==
    [ret |-> Some(FALSE), raised |-> "none", events |-> << << "finalize" >> >>,
     tags |-> known_tags, map |-> checksum_map,
     journal |-> FALSE, appended |-> FALSE]

\* Lines 306-340: [ret, raised, events, tags, map, journal, appended].
add_xact_call(xact, finalized) ==
    IF ~ finalized
    THEN finalize_failed(xact)
    ELSE add_xact_checked(xact, validate_metadata(known_tags, xact))

\* What the call leaves in the journal and in the transaction.
add_xact_effect(id, call) ==
    /\ known_tags' = call.tags
    /\ checksum_map' = call.map
    /\ xact_journal' = IF call.journal THEN xact_journal \cup {id}
                       ELSE xact_journal \ {id}
    /\ xacts' = IF call.appended THEN Append(xacts, id) ELSE xacts

\* What the caller of add_xact sees.
add_xact_seen(id, finalized, call) ==
    Call("add_xact", << id, finalized >>, call.ret, call.raised, call.events,
         [xacts |-> xacts, map |-> checksum_map,
          journal |-> xact_journal, tags |-> known_tags])

add_xact_done(id, finalized, call) ==
    /\ add_xact_effect(id, call)
    /\ last' = add_xact_seen(id, finalized, call)

add_xact(id, finalized) ==
    /\ Alive
    /\ configured
    /\ Len(xacts) < MaxXacts
    /\ add_xact_done(id, finalized, add_xact_call(XactOf(id), finalized))
    /\ UNCHANGED tree_vars
    /\ UNCHANGED << fixed_accounts, fixed_payees, fixed_commodities, fixed_metadata,
                    account_flags, commodity_flags, option_vars, table_vars,
                    item_vars, read_vars >>

\* Lines 351-356: the place of the first entry that is this xact, 0 if none.
first_position(list, id) ==
    LET hits == { i \in 1..Len(list) : list[i] = id }
    IN  IF hits = {} THEN 0 ELSE CHOOSE i \in hits : \A j \in hits : i <= j

\* Line 360: xacts.erase(i).
erase(list, i) ==
    [j \in 1..(Len(list) - 1) |-> IF j < i THEN list[j] ELSE list[j + 1]]

removed_leaves_checksum_map(map, id) ==
    [k \in { u \in DOMAIN map : map[u] # id } |-> map[k]]

\* Lines 360-361: the erase and the pointer reset are all that a removal
\* writes; checksum_map keeps the entry of the removed transaction.
removed_keeps_checksum_map(map, id) == map

\* Lines 348-364.
remove_xact(id) ==
    /\ Alive
    /\ configured
    /\ LET i == first_position(xacts, id)
           pre == [xacts |-> xacts, map |-> checksum_map,
                   journal |-> xact_journal, tags |-> known_tags]
       IN  IF i = 0
           THEN /\ last' = Call("remove_xact", << id >>, Some(FALSE), "none",
                                NoEvents, pre)
                /\ UNCHANGED << xacts, xact_journal, checksum_map >>
           ELSE /\ xacts' = erase(xacts, i)
                /\ xact_journal' = xact_journal \ {id}
                /\ checksum_map' = removed_keeps_checksum_map(checksum_map, id)
                /\ last' = Call("remove_xact", << id >>, Some(TRUE), "none",
                                NoEvents, pre)
    /\ UNCHANGED tree_vars
    /\ UNCHANGED << policy_vars, option_vars, table_vars, item_vars, read_vars >>

----------------------------------------------------------------------------
(* xdata: journal_t::has_xdata and journal_t::clear_xdata *)

Item(kind, id) == << kind, id >>

ListedItems ==
    { Item("xact", xacts[i]) : i \in 1..Len(xacts) }
        \cup { Item("auto_xact", auto_xacts[i].id) : i \in 1..Len(auto_xacts) }
        \cup { Item("period_xact", period_xacts[i].id) : i \in 1..Len(period_xacts) }

\* The accounts under master.
AccountItems ==
    { Item("account", AccountObject(n, master[n][1])) :
        n \in { m \in AccountNames : master[m] # None } }

\* The parser appends an automated transaction it has read.
add_auto_xact(auto) ==
    /\ Alive
    /\ Len(auto_xacts) < MaxAutoXacts
    /\ \A i \in 1..Len(auto_xacts) : auto_xacts[i] # auto
    /\ auto_xacts' = Append(auto_xacts, auto)
    /\ last' = Call("add_auto_xact", << auto >>, None, "none", NoEvents, None)
    /\ UNCHANGED tree_vars
    /\ UNCHANGED << policy_vars, option_vars, table_vars, xact_vars,
                    period_xacts, xdata, read_vars >>

\* The parser appends a periodic transaction it has read.
add_period_xact(period) ==
    /\ Alive
    /\ Len(period_xacts) < MaxAutoXacts
    /\ \A i \in 1..Len(period_xacts) : period_xacts[i] # period
    /\ period_xacts' = Append(period_xacts, period)
    /\ last' = Call("add_period_xact", << period >>, None, "none", NoEvents, None)
    /\ UNCHANGED tree_vars
    /\ UNCHANGED << policy_vars, option_vars, table_vars, xact_vars,
                    auto_xacts, xdata, read_vars >>

\* A valuation leaves xdata on an item of the journal or on an account.
compute_xdata(item) ==
    /\ Alive
    /\ item \in (ListedItems \cup AccountItems) \ xdata
    /\ xdata' = xdata \cup {item}
    /\ last' = Call("compute_xdata", << item >>, None, "none", NoEvents, None)
    /\ UNCHANGED tree_vars
    /\ UNCHANGED << policy_vars, option_vars, table_vars, xact_vars,
                    auto_xacts, period_xacts, read_vars >>

\* Lines 413-431 on the xdata given.
has_xdata_in(data) ==
    \/ \E i \in 1..Len(xacts) : Item("xact", xacts[i]) \in data
    \/ \E i \in 1..Len(auto_xacts) : Item("auto_xact", auto_xacts[i].id) \in data
    \/ \E i \in 1..Len(period_xacts) : Item("period_xact", period_xacts[i].id) \in data
    \/ \E item \in AccountItems : item \in data

cleared_items_without_periodic ==
    { Item("xact", xacts[i]) : i \in { j \in 1..Len(xacts) : ~ XactOf(xacts[j]).temp } }
        \cup { Item("auto_xact", auto_xacts[i].id) :
                   i \in { j \in 1..Len(auto_xacts) : ~ auto_xacts[j].temp } }
        \cup AccountItems

\* Lines 435-447: the items clear_xdata() clears, those without ITEM_TEMP
\* on the three lists, and every account under master.
cleared_items ==
    { Item("xact", xacts[i]) : i \in { j \in 1..Len(xacts) : ~ XactOf(xacts[j]).temp } }
        \cup { Item("auto_xact", auto_xacts[i].id) :
                   i \in { j \in 1..Len(auto_xacts) : ~ auto_xacts[j].temp } }
        \cup { Item("period_xact", period_xacts[i].id) :
                   i \in { j \in 1..Len(period_xacts) : ~ period_xacts[j].temp } }
        \cup AccountItems

\* Lines 433-448 on the xdata given.
clear_xdata_in(data) == data \ cleared_items

has_xdata ==
    /\ Alive
    /\ last' = Call("has_xdata", None, Some(has_xdata_in(xdata)), "none", NoEvents,
                    [xdata |-> xdata])
    /\ UNCHANGED tree_vars
    /\ UNCHANGED << policy_vars, option_vars, table_vars, xact_vars, item_vars,
                    read_vars >>

clear_xdata ==
    /\ Alive
    /\ xdata' = clear_xdata_in(xdata)
    /\ last' = Call("clear_xdata", None, None, "none", NoEvents, [xdata |-> xdata])
    /\ UNCHANGED tree_vars
    /\ UNCHANGED << policy_vars, option_vars, table_vars, xact_vars, auto_xacts,
                    period_xacts, read_vars >>

----------------------------------------------------------------------------
(* journal_t::read(std::istream&, ...) *)

Idle == [at |-> "idle", count |-> 0, steps |-> 0, path |-> None]

Filenames == {"journal.dat"}

read_exit_path_falls_through(threw) ==
    IF threw THEN << "clear_xdata", "clear_xdata", "return" >>
    ELSE << "clear_xdata", "return" >>

\* Lines 383-393: the statements run on the way out, after a throw inside
\* the try block (catch: clear_xdata(); throw;) or after the try block.
read_exit_path(threw) ==
    IF threw THEN << "clear_xdata", "throw" >>
    ELSE << "clear_xdata", "return" >>

\* Lines 402-404: the statements run when the file does not exist.
missing_file_path == << "throw" >>

\* Runs the statements of a path from the i-th on: [xdata, clears, end].
RECURSIVE run_path(_, _, _, _)
run_path(path, i, data, clears) ==
    IF path[i] = "clear_xdata"
    THEN run_path(path, i + 1, clear_xdata_in(data), clears + 1)
    ELSE [xdata |-> data, clears |-> clears, end |-> path[i]]

\* Lines 407-410: read(const path&, ...) records the file when the stream
\* read returned a count above 0; an exception passes through it.
sources_after(out, path, count) ==
    IF out.end = "return" /\ path # None /\ count > 0
    THEN Append(sources, path[1])
    ELSE sources

\* The stream read has run the statements of its way out, with `out` left.
read_left(out, path, count, threw, raised, args) ==
    /\ xdata' = out.xdata
    /\ clear_calls' = out.clears
    /\ read_pc' = Idle
    /\ sources' = sources_after(out, path, count)
    /\ last' = Call("read", args,
                    IF out.end = "return" THEN Some(count) ELSE None,
                    IF out.end = "throw" THEN raised ELSE "none",
                    NoEvents, [threw |-> threw, xdata |-> xdata, path |-> path])

\* The call leaves: by the exception `raised` when threw, else by return.
read_exit(threw, raised, args) ==
    read_left(run_path(read_exit_path(threw), 1, xdata, clear_calls),
              read_pc.path, read_pc.count, threw, raised, args)

\* Lines 371-381: entry of the stream read, called directly (path none) or
\* by read(const path&, ...); without a scope and without a default scope it
\* throws before parsing.
read_enter(path, scope, default_scope) ==
    IF ~ scope /\ ~ default_scope
    THEN read_left(run_path(read_exit_path(TRUE), 1, xdata, 0), path, 0, TRUE,
                   "runtime_error", << scope, default_scope >>)
    ELSE /\ read_pc' = [at |-> "parse", count |-> 0, steps |-> 0, path |-> path]
         /\ clear_calls' = 0
         /\ last' = Call("read_begin", << scope, default_scope >>, None, "none",
                         NoEvents, None)
         /\ UNCHANGED << xdata, sources >>

\* Lines 366-381: a call of read(std::istream&, ...).
read_begin(scope, default_scope) ==
    /\ Alive
    /\ configured
    /\ read_pc.at = "idle"
    /\ read_enter(None, scope, default_scope)
    /\ UNCHANGED tree_vars
    /\ UNCHANGED << policy_vars, option_vars, table_vars, xact_vars, auto_xacts,
                    period_xacts >>

\* Lines 402-404: the file does not exist and the call throws.
read_missing(out, filename) ==
    /\ xdata' = out.xdata
    /\ clear_calls' = out.clears
    /\ last' = Call("read_path", << filename, FALSE >>, None, "runtime_error",
                    NoEvents, [xdata |-> xdata])
    /\ UNCHANGED << read_pc, sources >>

\* Lines 396-411: a call of read(const path&, ...); exists(filename) is
\* what the file system answers.
read_path(filename, exists, scope, default_scope) ==
    /\ Alive
    /\ configured
    /\ read_pc.at = "idle"
    /\ Len(sources) < MaxSources
    /\ IF ~ exists
       THEN read_missing(run_path(missing_file_path, 1, xdata, 0), filename)
       ELSE read_enter(Some(filename), scope, default_scope)
    /\ UNCHANGED tree_vars
    /\ UNCHANGED << policy_vars, option_vars, table_vars, xact_vars, auto_xacts,
                    period_xacts >>

\* Line 381, parse(): add_xact returned or threw `call`; an exception leaves
\* parse() and the try block, otherwise parse() counts the transaction.
parse_xact_done(id, finalized, call) ==
    /\ add_xact_effect(id, call)
    /\ IF call.raised # "none"
       THEN read_exit(TRUE, call.raised, << id, finalized >>)
       ELSE /\ read_pc' = [read_pc EXCEPT
                              !.count = IF call.appended THEN @ + 1 ELSE @,
                              !.steps = @ + 1]
            /\ last' = add_xact_seen(id, finalized, call)
            /\ UNCHANGED << xdata, clear_calls, sources >>

\* Line 381, parse(): the parser hands a transaction it has read to add_xact.
parse_xact(id, finalized) ==
    /\ Alive
    /\ read_pc.at = "parse"
    /\ read_pc.steps < MaxParsed
    /\ Len(xacts) < MaxXacts
    /\ parse_xact_done(id, finalized, add_xact_call(XactOf(id), finalized))
    /\ UNCHANGED tree_vars
    /\ UNCHANGED << fixed_accounts, fixed_payees, fixed_commodities, fixed_metadata,
                    account_flags, commodity_flags, option_vars, table_vars,
                    auto_xacts, period_xacts >>

\* Line 381, parse(): a balance assertion or a valexpr amount leaves xdata.
parse_valuation(item) ==
    /\ Alive
    /\ read_pc.at = "parse"
    /\ item \in (ListedItems \cup AccountItems) \ xdata
    /\ xdata' = xdata \cup {item}
    /\ last' = Call("parse_valuation", << item >>, None, "none", NoEvents, None)
    /\ UNCHANGED tree_vars
    /\ UNCHANGED << policy_vars, option_vars, table_vars, xact_vars,
                    auto_xacts, period_xacts, read_vars >>

\* Line 381, parse(): the text does not parse and parse() throws.
parse_fail ==
    /\ Alive
    /\ read_pc.at = "parse"
    /\ read_exit(TRUE, "parse_error", None)
    /\ UNCHANGED tree_vars
    /\ UNCHANGED << policy_vars, option_vars, table_vars, xact_vars,
                    auto_xacts, period_xacts >>

\* Lines 381-393: parse() returns its count, then the call returns it.
parse_return ==
    /\ Alive
    /\ read_pc.at = "parse"
    /\ read_exit(FALSE, "none", None)
    /\ UNCHANGED tree_vars
    /\ UNCHANGED << policy_vars, option_vars, table_vars, xact_vars,
                    auto_xacts, period_xacts >>

----------------------------------------------------------------------------
(* Specifications *)

\* The transaction pipeline.
Next ==
    \/ \E style \in Styles, force \in {FALSE} : Configure(style, force)
    \/ \E auto \in { a \in AutoXactPool : ~ a.temp } : add_auto_xact(auto)
    \/ \E id \in XactIds, finalized \in BOOLEAN : add_xact(id, finalized)
    \/ \E id \in XactIds : remove_xact(id)

Spec == Init /\ [][Next]_vars

\* The transaction pipeline with checks on the Project tag.
NextChecks ==
    \/ \E style \in Styles, force \in {FALSE} : Configure(style, force)
    \/ \E expr \in Exprs, kind \in CheckKinds : add_tag_check("Project", expr, kind)
    \/ \E auto \in AutoXactPool : add_auto_xact(auto)
    \/ \E id \in {"x1", "x2", "x3"}, finalized \in BOOLEAN : add_xact(id, finalized)

SpecChecks == Init /\ [][NextChecks]_vars

\* The known-entity policy of the three kinds.
NextPolicy ==
    \/ \E style \in Styles, force \in BOOLEAN : Configure(style, force)
    \/ \E name \in {"Unknown", "Food"},
          post \in {None} \cup { Some(Post(s, "Gas")) : s \in States } :
           register_account(name, post)
    \/ \E mapping \in { << "G", Account("Food") >> }
                          \ { payees_for_unknown_accounts[i] :
                                  i \in 1..Len(payees_for_unknown_accounts) } :
           add_payee_mapping(mapping[1], mapping[2])
    \/ \E comm \in Commodities,
          context \in {DeclContext} \cup { Context(1, s) : s \in States } :
           register_commodity(comm, context)
    \/ \E key \in Keys, value \in {Value("STRING", "ok")},
          context \in {DeclContext} \cup { Context(2, s) : s \in States } :
           register_metadata(key, value, context)

SpecPolicy == Init /\ [][NextPolicy]_vars

\* Tag registration with checks on the tag.
NextMetadata ==
    \/ \E style \in Styles, force \in BOOLEAN : Configure(style, force)
    \/ \E expr \in Exprs, kind \in CheckKinds : add_tag_check("Project", expr, kind)
    \/ \E value \in {NULL_VALUE, Value("STRING", "ok"), Value("STRING", "bad")},
          context \in {DeclContext, Context(1, "CLEARED"), Context(2, "UNCLEARED")} :
           register_metadata("Project", value, context)

SpecMetadata == Init /\ [][NextMetadata]_vars

\* Every call that could touch what the journal knows.
NextKnowledge ==
    \/ \E style \in Styles, force \in BOOLEAN : Configure(style, force)
    \/ \E mask \in {"G"}, payee \in {"Grocery Store"} : add_payee_alias(mask, payee)
    \/ \E name \in {"Food"}, post \in {None, Some(Post("CLEARED", "Gas"))} :
           register_account(name, post)
    \/ \E name \in Payees : register_payee(name)
    \/ \E comm \in {"EUR"}, context \in {DeclContext, Context(1, "PENDING")} :
           register_commodity(comm, context)
    \/ \E key \in {"Project"}, context \in {DeclContext, Context(2, "UNCLEARED")} :
           register_metadata(key, NULL_VALUE, context)
    \/ \E id \in {"x1", "x2"}, finalized \in {TRUE} : add_xact(id, finalized)
    \/ \E id \in {"x1", "x2"} : remove_xact(id)
    \/ \E item \in { Item("xact", id) : id \in {"x1", "x2"} } : compute_xdata(item)
    \/ clear_xdata

SpecKnowledge == Init /\ [][NextKnowledge]_vars

\* Account registration with aliases and payee mappings.
NextAccount ==
    \/ \E style \in Styles, force \in BOOLEAN : Configure(style, force)
    \/ \E name \in {"f"}, account \in {Account("Unknown")} :
           add_alias(name, account)
    \/ \E mapping \in { << "Gro", Account("Food") >>, << "G", Account("f") >> }
                          \ { payees_for_unknown_accounts[i] :
                                  i \in 1..Len(payees_for_unknown_accounts) } :
           add_payee_mapping(mapping[1], mapping[2])
    \/ \E name \in {"Unknown", "f"}, post \in PostArgs : register_account(name, post)
    \/ \E acct \in {Account("Unknown")} : remove_account(acct)

SpecAccount == Init /\ [][NextAccount]_vars

\* Account registration on a journal whose account tree changes under it.
NextTree ==
    \/ \E style \in Styles, force \in BOOLEAN : Configure(style, force)
    \/ \E name \in {"Food", "f"}, post \in PostArgs : register_account(name, post)
    \/ \E name \in {"Food"}, auto_create \in BOOLEAN : find_account(name, auto_create)
    \/ \E acct \in AccountObjects("Food") : add_account(acct)
    \/ \E acct \in {Account("Food")} : remove_account(acct)
    \/ initialize

SpecTree == Init /\ [][NextTree]_vars

\* The xdata sweep over a journal that is being filled.
NextXdata ==
    \/ \E style \in {"CHECK_PERMISSIVE"}, force \in {FALSE} : Configure(style, force)
    \/ \E auto \in AutoXactPool : add_auto_xact(auto)
    \/ \E period \in PeriodXactPool : add_period_xact(period)
    \/ \E id \in {"x1", "x4"}, finalized \in {TRUE} : add_xact(id, finalized)
    \/ \E acct \in {Account("Food")} : add_account(acct)
    \/ \E acct \in {Account("Food")} : remove_account(acct)
    \/ \E item \in ListedItems \cup AccountItems : compute_xdata(item)
    \/ has_xdata
    \/ clear_xdata

SpecXdata == Init /\ [][NextXdata]_vars

\* The stream-based read().
NextRead ==
    \/ \E style \in Styles, force \in {FALSE} : Configure(style, force)
    \/ \E scope \in BOOLEAN, default_scope \in BOOLEAN : read_begin(scope, default_scope)
    \/ \E id \in {"x1", "x2", "x4"}, finalized \in BOOLEAN : parse_xact(id, finalized)
    \/ \E acct \in {Account("Food")} : add_account(acct)
    \/ \E item \in ListedItems \cup AccountItems : parse_valuation(item)
    \/ parse_fail
    \/ parse_return

SpecRead == Init /\ [][NextRead]_vars

\* Both overloads of read().
NextLoad ==
    \/ \E style \in {"CHECK_ERROR"}, force \in {FALSE} : Configure(style, force)
    \/ \E scope \in BOOLEAN, default_scope \in BOOLEAN : read_begin(scope, default_scope)
    \/ \E filename \in Filenames, exists \in BOOLEAN, scope \in BOOLEAN,
          default_scope \in BOOLEAN :
           read_path(filename, exists, scope, default_scope)
    \/ \E id \in {"x1", "x2", "x4"}, finalized \in BOOLEAN : parse_xact(id, finalized)
    \/ \E acct \in {Account("Food")} : add_account(acct)
    \/ \E item \in ListedItems \cup AccountItems : parse_valuation(item)
    \/ parse_fail
    \/ parse_return

SpecLoad == Init /\ [][NextLoad]_vars

----------------------------------------------------------------------------
(* Properties *)

Range(list) == { list[i] : i \in 1..Len(list) }

\* The UUID string of a pool transaction, none when it carries no UUID value.
uuid_of(id) ==
    LET ref == get_tag(XactOf(id), "UUID")
    IN  IF ref = None THEN None ELSE Some(to_string(ref[1]))

\* The last call was add_xact on a transaction with a UUID value, and it got
\* past finalize() and the metadata validation.
ReachedChecksum ==
    /\ last.op = "add_xact"
    /\ last.args[2]
    /\ last.raised = "none"
    /\ uuid_of(last.args[1]) # None

\* C1: of two distinct transactions with the same UUID value handed to
\* add_xact one after the other, both passing finalize() and the metadata
\* validation, the first (the UUID is free when it comes) is accepted,
\* appended and entered in checksum_map; the second (the UUID then belongs
\* to another transaction) is refused: add_xact returns false, it is not in
\* xacts, its journal pointer is NULL and checksum_map still names the first.
C1_DuplicateUuidRejected ==
    ReachedChecksum =>
        LET id == last.args[1]
            uuid == uuid_of(id)[1]
        IN  /\ uuid \notin DOMAIN last.pre.map =>
                /\ last.ret = Some(TRUE)
                /\ xacts = Append(last.pre.xacts, id)
                /\ id \in xact_journal
                /\ checksum_map[uuid] = id
            /\ (uuid \in DOMAIN last.pre.map /\ last.pre.map[uuid] # id) =>
                /\ last.ret = Some(FALSE)
                /\ id \notin Range(xacts)
                /\ xacts = last.pre.xacts
                /\ id \notin xact_journal
                /\ checksum_map = last.pre.map

\* x2 was refused because x1, still listed, holds the UUID they share.
C1_Witness ==
    /\ ReachedChecksum
    /\ last.args[1] = "x2"
    /\ last.ret = Some(FALSE)
    /\ uuid_of("x1") = uuid_of("x2")
    /\ checksum_map[uuid_of("x2")[1]] = "x1"
    /\ "x1" \in Range(xacts)
    /\ "x2" \notin Range(xacts) \cup xact_journal

\* C2: xacts never holds two transactions with the same UUID value, and a
\* listed transaction that has a UUID is the one checksum_map names for it.
C2_OneTransactionPerUuid ==
    /\ \A i, j \in 1..Len(xacts) :
           (uuid_of(xacts[i]) # None /\ uuid_of(xacts[i]) = uuid_of(xacts[j]))
               => xacts[i] = xacts[j]
    /\ \A i \in 1..Len(xacts) :
           uuid_of(xacts[i]) # None =>
               /\ uuid_of(xacts[i])[1] \in DOMAIN checksum_map
               /\ checksum_map[uuid_of(xacts[i])[1]] = xacts[i]

\* Two UUIDs are claimed by listed transactions and a third transaction,
\* sharing one of them, has just been refused.
C2_Witness ==
    /\ ReachedChecksum
    /\ last.ret = Some(FALSE)
    /\ last.args[1] \notin Range(xacts)
    /\ \E i, j \in 1..Len(xacts) :
           /\ uuid_of(xacts[i]) # None
           /\ uuid_of(xacts[j]) # None
           /\ uuid_of(xacts[i]) # uuid_of(xacts[j])
           /\ uuid_of(xacts[i]) = uuid_of(last.args[1])

\* The last call was register_account with a posting, on an account that
\* was not known.
UnknownAccountOnPost ==
    /\ last.op = "register_account"
    /\ last.raised # "fault"
    /\ last.args[2] # None
    /\ ~ last.pre.known

\* C3: under CHECK_ERROR with force_checking false, register_account for an
\* account not yet known throws parse_error when the posting is UNCLEARED and
\* leaves the account unknown; when the posting is CLEARED it marks the
\* account known, throws nothing and returns it.
C3_ErrorStyleUnclearedVsCleared ==
    (UnknownAccountOnPost /\ checking_style = "CHECK_ERROR" /\ ~ force_checking) =>
        LET post == last.args[2][1]
            account == last.pre.result
        IN  /\ post.state = "UNCLEARED" =>
                /\ last.raised = "parse_error"
                /\ last.ret = None
                /\ account \notin account_flags
            /\ post.state = "CLEARED" =>
                /\ last.raised = "none"
                /\ last.ret = Some(account)
                /\ account \in account_flags

\* An unknown account on an UNCLEARED posting has just been refused.
C3_Witness ==
    /\ UnknownAccountOnPost
    /\ checking_style = "CHECK_ERROR"
    /\ ~ force_checking
    /\ last.args[2][1].state = "UNCLEARED"
    /\ last.raised = "parse_error"
    /\ last.pre.result \notin account_flags

\* The last call observed, in a transaction or posting, an entity that was
\* unknown while its kind was fixed.
UnknownWhileFixed ==
    /\ last.op \in {"register_account", "register_commodity", "register_metadata"}
    /\ last.raised # "fault"
    /\ IF last.op = "register_account" THEN last.args[2] # None
       ELSE IF last.op = "register_commodity" THEN last.args[2].which # 0
       ELSE last.args[3].which # 0
    /\ ~ last.pre.known
    /\ last.pre.fixed

\* C4: under CHECK_ERROR, once a kind (account, commodity, tag) is fixed, an
\* unknown entity of that kind seen in a transaction or posting makes the
\* call throw parse_error whatever the clearing state, and the entity is not
\* marked known.
C4_FixedKindAlwaysRaises ==
    (UnknownWhileFixed /\ checking_style = "CHECK_ERROR") =>
        /\ last.raised = "parse_error"
        /\ last.op = "register_account" =>
               /\ last.pre.result \notin account_flags
               /\ fixed_accounts
        /\ last.op = "register_commodity" =>
               /\ last.args[1] \notin commodity_flags
               /\ fixed_commodities
        /\ last.op = "register_metadata" =>
               /\ last.args[1] \notin known_tags
               /\ fixed_metadata

\* An unknown tag on a CLEARED item has just been refused because tags are
\* fixed.
C4_Witness ==
    /\ UnknownWhileFixed
    /\ checking_style = "CHECK_ERROR"
    /\ last.op = "register_metadata"
    /\ last.args[3].state = "CLEARED"
    /\ last.raised = "parse_error"
    /\ last.args[1] \notin known_tags

\* C5: under CHECK_PERMISSIVE register_account never throws: with a posting
\* of any clearing state it returns the account, whatever force_checking and
\* fixed_accounts are, and no call at all ends in parse_error.
C5_PermissiveNeverRaises ==
    (last.op = "register_account" /\ checking_style = "CHECK_PERMISSIVE") =>
        /\ last.raised # "parse_error"
        /\ last.args[2] # None =>
               /\ last.raised = "none"
               /\ last.ret = Some(last.pre.result)

\* An unknown account on an UNCLEARED posting, accounts being fixed: the call
\* returned it and left it unknown.
C5_Witness ==
    /\ UnknownAccountOnPost
    /\ checking_style = "CHECK_PERMISSIVE"
    /\ force_checking
    /\ last.pre.fixed
    /\ last.args[2][1].state = "UNCLEARED"
    /\ last.raised = "none"
    /\ last.pre.result \notin account_flags

\* An item of the three lists that carries ITEM_TEMP.
is_temp(item) ==
    \/ item[1] = "xact" /\ XactOf(item[2]).temp
    \/ item[1] = "auto_xact" /\ \E a \in AutoXactPool : a.id = item[2] /\ a.temp
    \/ item[1] = "period_xact" /\ \E a \in PeriodXactPool : a.id = item[2] /\ a.temp

\* C6 as stated: clear_xdata() is idempotent, and right after it returns
\* has_xdata() is false.
C6_ClearLeavesNoXdata ==
    last.op = "clear_xdata" =>
        /\ clear_xdata_in(xdata) = xdata
        /\ ~ has_xdata_in(xdata)

\* C6 as amended: clear_xdata() is idempotent; right after it returns no
\* account under master and no listed item without ITEM_TEMP carries xdata, the listed
\* items with ITEM_TEMP carry what they carried before, and has_xdata() is
\* true exactly when one of those carries xdata.
C6_ClearSkipsTemporaries ==
    last.op = "clear_xdata" =>
        /\ clear_xdata_in(xdata) = xdata
        /\ \A item \in ListedItems \cup AccountItems :
               item \in xdata <=> (is_temp(item) /\ item \in last.pre.xdata)
        /\ has_xdata_in(xdata) <=>
               \E item \in ListedItems : is_temp(item) /\ item \in xdata

\* clear_xdata() has just cleared a listed transaction and left the xdata of
\* a listed transaction that carries ITEM_TEMP.
C6_Witness ==
    /\ last.op = "clear_xdata"
    /\ \E item \in ListedItems : ~ is_temp(item) /\ item \in last.pre.xdata \ xdata
    /\ \E item \in ListedItems : is_temp(item) /\ item \in xdata
    /\ has_xdata_in(xdata)

\* The list without every entry that is id.
without(list, id) == SelectSeq(list, LAMBDA other : other # id)

\* C7 as stated: remove_xact of a transaction that is not in xacts returns
\* false and leaves xacts and its journal pointer alone; of one that is in
\* xacts it returns true, after which the transaction is no longer in xacts,
\* its journal pointer is NULL and the others are in their old order.
C7_RemovedIsGone ==
    last.op = "remove_xact" =>
        LET id == last.args[1]
        IN  /\ id \notin Range(last.pre.xacts) =>
                /\ last.ret = Some(FALSE)
                /\ xacts = last.pre.xacts
                /\ (id \in xact_journal) <=> (id \in last.pre.journal)
            /\ id \in Range(last.pre.xacts) =>
                /\ last.ret = Some(TRUE)
                /\ id \notin Range(xacts)
                /\ id \notin xact_journal
                /\ xacts = without(last.pre.xacts, id)

\* A tag of the transaction or of one of its postings has a value for which
\* a check of this kind, registered for its key, comes out false.
has_failing_check(xact, kind) ==
    LET fails(tag) ==
            /\ tag[2] # None
            /\ \E i \in 1..Len(tag_check_exprs[tag[1]]) :
                   /\ tag_check_exprs[tag[1]][i][2] = kind
                   /\ ~ Calc(tag_check_exprs[tag[1]][i][1], tag[2][1])
    IN  \/ \E i \in 1..Len(xact.metadata) : fails(xact.metadata[i])
        \/ \E p \in 1..Len(xact.posts) :
               \E i \in 1..Len(xact.posts[p].metadata) : fails(xact.posts[p].metadata[i])

has_event(event) == \E i \in 1..Len(last.events) : last.events[i] = event

\* C8: in add_xact of a finalized transaction, under every checking style, a
\* tag value for which an EXPR_ASSERTION check is false ends the call in
\* parse_error with the transaction not appended; where the only false
\* checks are EXPR_WARNING ones, each logs a warning and stops nothing: the
\* transaction is appended unless the known-tag rule throws or its UUID is
\* already taken.
C8_AssertionRaisesWarningCommits ==
    (last.op = "add_xact" /\ last.args[2]) =>
        LET id == last.args[1]
            xact == XactOf(id)
            unknown_tag_error ==
                \E key \in Keys : has_event(Error("Unknown metadata tag", key))
            uuid_taken ==
                uuid_of(id) # None /\ uuid_of(id)[1] \in DOMAIN last.pre.map
        IN  /\ has_failing_check(xact, "EXPR_ASSERTION") =>
                /\ last.raised = "parse_error"
                /\ last.ret = None
                /\ xacts = last.pre.xacts
            /\ (/\ has_failing_check(xact, "EXPR_WARNING")
                /\ ~ has_failing_check(xact, "EXPR_ASSERTION")
                /\ ~ unknown_tag_error) =>
                /\ last.raised = "none"
                /\ \E key \in Keys : has_event(Warning("Metadata check failed", key))
                /\ ~ \E key \in Keys : has_event(Error("Metadata assertion failed", key))
                /\ ~ uuid_taken =>
                       /\ last.ret = Some(TRUE)
                       /\ xacts = Append(last.pre.xacts, id)

\* A transaction whose Project value fails a check registered as
\* EXPR_WARNING has been appended, with the warning logged.
C8_Witness ==
    /\ last.op = "add_xact"
    /\ last.args[2]
    /\ has_failing_check(XactOf(last.args[1]), "EXPR_WARNING")
    /\ has_event(Warning("Metadata check failed", "Project"))
    /\ last.ret = Some(TRUE)
    /\ xacts = Append(last.pre.xacts, last.args[1])

\* The account the alias table, then the tree, gives for a name.
normally_resolved(name) ==
    IF name \in DOMAIN account_aliases THEN account_aliases[name]
    ELSE account_found(name, TRUE)[1]

\* C9: register_account with a posting replaces the account it resolved
\* (alias table, then tree) only when that account is named Unknown and some
\* mask of payees_for_unknown_accounts matches the payee of the posting's
\* transaction, and then by the account of the first such mapping in list
\* order; otherwise the resolved account stands.  Without a posting the
\* resolved account stands whenever line 131 is not reached.
C9_FirstMatchingPayeeMapping ==
    (last.op = "register_account" /\ last.raised # "fault" /\ ~ last.pre.undefined) =>
        LET name == last.args[1]
            post == last.args[2]
            resolved == normally_resolved(name)
            mappings == payees_for_unknown_accounts
            matching == IF post = None THEN {}
                        ELSE { i \in 1..Len(mappings) :
                                   Match(mappings[i][1], post[1].payee) }
        IN  IF resolved.name = "Unknown" /\ matching # {}
            THEN \E i \in matching :
                     /\ \A j \in matching : i <= j
                     /\ last.pre.result = mappings[i][2]
            ELSE last.pre.result = resolved

\* Two mappings to different accounts both match the payee, and the Unknown
\* account was replaced by the account of the first.
C9_Witness ==
    /\ last.op = "register_account"
    /\ last.args[2] # None
    /\ last.pre.resolved.name = "Unknown"
    /\ Len(payees_for_unknown_accounts) >= 2
    /\ Match(payees_for_unknown_accounts[1][1], last.args[2][1].payee)
    /\ Match(payees_for_unknown_accounts[2][1], last.args[2][1].payee)
    /\ payees_for_unknown_accounts[1][2] # payees_for_unknown_accounts[2][2]
    /\ last.ret = Some(payees_for_unknown_accounts[1][2])

\* C10: a call of read(std::istream&, ...) runs clear_xdata() exactly once
\* on each way out: before the exception leaves it when there is no scope or
\* parse() throws, and before it returns the count otherwise; none runs
\* while it is still parsing.
C10_ReadClearsExactlyOnce ==
    /\ read_pc.at = "parse" => clear_calls = 0
    /\ last.op = "read" =>
           /\ clear_calls = 1
           /\ read_pc.at = "idle"
           /\ xdata = last.pre.xdata \ cleared_items
           /\ last.pre.threw => (last.raised # "none" /\ last.ret = None)
           /\ ~ last.pre.threw => (last.raised = "none" /\ last.ret # None)

\* parse() threw while a listed transaction carried xdata: the one
\* clear_xdata() of the handler removed it and the exception left read().
C10_Witness ==
    /\ last.op = "read"
    /\ last.raised = "parse_error"
    /\ clear_calls = 1
    /\ \E item \in ListedItems : item \in last.pre.xdata \ xdata

\* The last call was a load that ended in an exception.
load_failed ==
    /\ last.op \in {"read", "read_path"}
    /\ last.raised # "none"

\* C11 as stated: whenever a load call, stream-based or path-based, ends in
\* an exception, clear_xdata() has run in that call before the exception
\* reached the caller.
C11_ClearBeforeEveryLoadError ==
    load_failed => clear_calls >= 1

\* The step is a call of add_xact in which finalize() returned false.
finalize_fails_in_step ==
    /\ last'.op = "add_xact"
    /\ ~ last'.args[2]

\* C12: a call of add_xact in which finalize() returns false returns false
\* and raises nothing, leaves the transaction's journal pointer NULL, and
\* leaves xacts, checksum_map, the known accounts, commodities and tags and
\* the four fixed flags as they were; extend_xact is not called for any
\* automated transaction and no tag is registered or checked.
C12_FailedFinalizeTouchesNothing ==
    [][finalize_fails_in_step =>
           /\ last'.ret = Some(FALSE)
           /\ last'.raised = "none"
           /\ last'.events = << << "finalize" >> >>
           /\ xact_journal' = xact_journal \ {last'.args[1]}
           /\ UNCHANGED << xacts, checksum_map, policy_vars, tree_vars,
                           option_vars, table_vars, item_vars >>]_vars

\* finalize() failed for x2, whose Project tag has a check registered and
\* is not yet known, while an automated transaction is listed and x2's
\* journal pointer was still set by an earlier call that threw.
C12_Witness ==
    /\ last.op = "add_xact"
    /\ ~ last.args[2]
    /\ last.args[1] = "x2"
    /\ "x2" \in last.pre.journal
    /\ "x2" \notin xact_journal
    /\ Len(auto_xacts) > 0
    /\ Len(tag_check_exprs["Project"]) > 0
    /\ "Project" \notin known_tags

\* C13 as stated: between calls of add_xact and remove_xact, however they
\* ended, a transaction's journal pointer is this journal exactly when the
\* transaction is in xacts.
C13_JournalPointerIffListed ==
    \A id \in XactIds : id \in xact_journal <=> id \in Range(xacts)

\* The last call was a declaration (no posting, context.which() = 0) that
\* ran on defined values: [known, fixed] of the declared entity's kind now,
\* and [was_known, was_fixed] before the call.
declaration ==
    IF /\ last.op = "register_account"
       /\ last.args[2] = None
       /\ last.raised # "fault"
    THEN IF last.pre.undefined THEN None
         ELSE Some([known |-> last.pre.result \in account_flags,
                    fixed |-> fixed_accounts,
                    was_known |-> last.pre.known, was_fixed |-> last.pre.fixed])
    ELSE IF last.op = "register_commodity" /\ last.args[2].which = 0
    THEN Some([known |-> last.args[1] \in commodity_flags,
               fixed |-> fixed_commodities,
               was_known |-> last.pre.known, was_fixed |-> last.pre.fixed])
    ELSE IF last.op = "register_metadata" /\ last.args[3].which = 0
    THEN Some([known |-> last.args[1] \in known_tags,
               fixed |-> fixed_metadata,
               was_known |-> last.pre.known, was_fixed |-> last.pre.fixed])
    ELSE None

\* C14 as stated: after every declaration the entity is known and, with
\* force_checking set, the fixed flag of its kind is true.
C14_DeclarationAlwaysFixes ==
    declaration # None =>
        /\ declaration[1].known
        /\ force_checking => declaration[1].fixed

\* C14: after a declaration the entity is known; when it was not known
\* before the call and force_checking is set, the fixed flag of its kind is
\* true afterwards; when it was already known (declared, or learned from a
\* cleared or pending item) the call leaves the fixed flag as it was, true
\* or false.  (A declaration through register_account that reads the payee
\* of the NULL posting is left out: it runs on undefined values.)
C14_DeclarationOfUnknownFixes ==
    declaration # None =>
        /\ declaration[1].known
        /\ (~ declaration[1].was_known /\ force_checking) => declaration[1].fixed
        /\ declaration[1].was_known =>
               declaration[1].fixed = declaration[1].was_fixed

\* With force_checking set, an entity learned from a cleared item was
\* declared afterwards, and the kind is still not fixed.
C14_Witness ==
    /\ declaration # None
    /\ force_checking
    /\ declaration[1].was_known
    /\ ~ declaration[1].fixed

\* The step is a call of add_xact on a transaction whose UUID value has an
\* entry in checksum_map.
adds_registered_uuid ==
    /\ last'.op = "add_xact"
    /\ uuid_of(last'.args[1]) # None
    /\ uuid_of(last'.args[1])[1] \in DOMAIN checksum_map

\* C15: no call deletes or overwrites an entry of checksum_map, remove_xact
\* included, so the entry of a removed transaction stays; a later add_xact
\* of any transaction with that UUID value, the removed one too, never
\* appends and never returns true: it returns false unless finalize() or
\* the metadata validation ended the call before.
C15_RegistryEntriesStay ==
    [][/\ \A k \in DOMAIN checksum_map :
              k \in DOMAIN checksum_map' /\ checksum_map'[k] = checksum_map[k]
       /\ adds_registered_uuid =>
              /\ xacts' = xacts
              /\ last'.ret # Some(TRUE)
              /\ last'.raised = "none" => last'.ret = Some(FALSE)]_vars

\* x1 was accepted and removed; handed to add_xact again, past finalize()
\* and the validation, it is refused because of its own entry.
C15_Witness ==
    /\ last.op = "add_xact"
    /\ last.args = << "x1", TRUE >>
    /\ "x1" \notin Range(last.pre.xacts)
    /\ "7" \in DOMAIN last.pre.map
    /\ last.pre.map["7"] = "x1"
    /\ last.ret = Some(FALSE)
    /\ "x1" \notin Range(xacts)

\* The stage of add_xact an event of its log belongs to.
StageOf(event) ==
    IF event[1] = "finalize" THEN 1
    ELSE IF event[1] = "extend" THEN 2
    ELSE IF event[1] = "insert" THEN 4
    ELSE IF event[1] = "push_back" THEN 5
    ELSE 3

is_stage(event, n) == StageOf(event) = n

is_tag_event(event) == event[1] = "tag"

IsPrefix(a, b) ==
    /\ Len(a) <= Len(b)
    /\ \A i \in 1..Len(a) : a[i] = b[i]

keys_of(metadata) == [i \in 1..Len(metadata) |-> metadata[i][1]]

\* The tag keys of the postings from the i-th on, in posting order.
RECURSIVE post_keys(_, _)
post_keys(posts, i) ==
    IF i > Len(posts) THEN << >>
    ELSE keys_of(posts[i].metadata) \o post_keys(posts, i + 1)

\* The keys register_metadata is called with by a complete validation.
validated_keys(xact) == keys_of(xact.metadata) \o post_keys(xact.posts, 1)

\* The keys the logged call of add_xact registered, in call order.
registered_keys ==
    LET tagged == SelectSeq(last.events, is_tag_event)
    IN  [i \in 1..Len(tagged) |-> tagged[i][2]]

stage_events(n) == { i \in 1..Len(last.events) : is_stage(last.events[i], n) }

\* C16: the log of a call of add_xact shows finalize first, then
\* extend_xact for each automated transaction in list order, then
\* register_metadata for the transaction's tags and then each posting's in
\* posting order, then the checksum_map insert, then push_back; after a
\* failed finalize nothing follows; a call ended by an exception of the
\* validation has registered a prefix of the tags, has neither inserted nor
\* appended; a call refused for its UUID has extended and validated fully.
C16_StagesInOrder ==
    last.op = "add_xact" =>
        LET ev == last.events
            xact == XactOf(last.args[1])
            finalized == last.args[2]
        IN  /\ stage_events(1) = {1}
            /\ \A i, j \in 1..Len(ev) : i < j => StageOf(ev[i]) <= StageOf(ev[j])
            /\ ~ finalized => ev = << << "finalize" >> >>
            /\ finalized =>
                   /\ SelectSeq(ev, LAMBDA e : is_stage(e, 2)) =
                          [i \in 1..Len(auto_xacts) |->
                               << "extend", auto_xacts[i].id >>]
                   /\ IsPrefix(registered_keys, validated_keys(xact))
                   /\ last.raised = "none" => registered_keys = validated_keys(xact)
            /\ last.raised # "none" =>
                   /\ stage_events(4) = {} /\ stage_events(5) = {}
                   /\ checksum_map = last.pre.map
                   /\ xacts = last.pre.xacts
            /\ stage_events(4) # {} <=>
                   (finalized /\ last.raised = "none" /\ uuid_of(xact.id) # None)
            /\ stage_events(5) # {} <=> last.ret = Some(TRUE)
            /\ last.ret = Some(TRUE) <=> xacts = Append(last.pre.xacts, xact.id)

\* x2 was refused for the UUID it shares with x1, after extend_xact ran for
\* two automated transactions and its three tags were registered with a
\* failing warning check among them.
C16_Witness ==
    /\ last.op = "add_xact"
    /\ last.args = << "x2", TRUE >>
    /\ last.ret = Some(FALSE)
    /\ Len(auto_xacts) = 2
    /\ Cardinality(stage_events(2)) = 2
    /\ registered_keys = << "Project", "UUID", "Project" >>
    /\ \E i \in 1..Len(last.events) : last.events[i][1] = "warning"
    /\ stage_events(4) # {}
    /\ stage_events(5) = {}

\* The step is a registration that finds its entity unknown, in the context
\* of a transaction or posting, while the kind is fixed or the item is
\* UNCLEARED: the rule's last branch.  The value is the entity, none when
\* the step is no such registration.
otherwise_entity ==
    IF /\ last'.op = "register_account"
       /\ last'.args[2] # None
       /\ last'.pre.result \notin account_flags
       /\ (fixed_accounts \/ last'.args[2][1].state = "UNCLEARED")
    THEN Some(fullname(last'.pre.result))
    ELSE IF /\ last'.op = "register_commodity"
            /\ last'.args[2].which # 0
            /\ last'.args[1] \notin commodity_flags
            /\ (fixed_commodities \/ last'.args[2].state = "UNCLEARED")
    THEN Some(last'.args[1])
    ELSE IF /\ last'.op = "register_metadata"
            /\ last'.args[3].which # 0
            /\ last'.args[1] \notin known_tags
            /\ (fixed_metadata \/ last'.args[3].state = "UNCLEARED")
    THEN Some(last'.args[1])
    ELSE None

\* The warnings and errors the call of the step logged.
reports ==
    SelectSeq(last'.events, LAMBDA e : e[1] \in {"warning", "error"})

\* C17: in the last branch of the rule the known accounts, commodities and
\* tags and the four fixed flags stay as they were, so the entity is still
\* unknown and the same observation meets the same branch again;
\* CHECK_PERMISSIVE reports nothing, CHECK_WARNING logs one warning naming
\* the entity and goes on, CHECK_ERROR throws parse_error.
C17_OtherwiseBranchLearnsNothing ==
    [][otherwise_entity # None =>
           /\ UNCHANGED policy_vars
           /\ checking_style = "CHECK_PERMISSIVE" =>
                  (last'.raised = "none" /\ reports = << >>)
           /\ checking_style = "CHECK_WARNING" =>
                  /\ last'.raised = "none"
                  /\ Len(reports) = 1
                  /\ reports[1][1] = "warning"
                  /\ reports[1][3] = otherwise_entity[1]
           /\ checking_style = "CHECK_ERROR" =>
                  /\ last'.raised = "parse_error"
                  /\ Len(reports) = 1
                  /\ reports[1][1] = "error"
                  /\ reports[1][3] = otherwise_entity[1]]_vars

\* Under CHECK_WARNING, with the commodities fixed, a commodity seen on a
\* cleared item was warned about and is still unknown.
C17_Witness ==
    /\ last.op = "register_commodity"
    /\ last.args[2].which # 0
    /\ last.args[2].state = "CLEARED"
    /\ last.pre.fixed
    /\ ~ last.pre.known
    /\ checking_style = "CHECK_WARNING"
    /\ last.events = << Warning("Unknown commodity", last.args[1]) >>
    /\ last.args[1] \notin commodity_flags

is_calc_event(event) == event[1] = "calc"

\* The checks the logged call evaluated, in the order it evaluated them.
evaluated == SelectSeq(last.events, is_calc_event)

\* The place of the first check of the list that is an assertion the value
\* fails, 0 when there is none.
first_failed_assertion(checks, value) ==
    LET failing == { i \in 1..Len(checks) :
                        ~ Calc(checks[i][1], value) /\ checks[i][2] = "EXPR_ASSERTION" }
    IN  IF failing = {} THEN 0 ELSE CHOOSE i \in failing : \A j \in failing : i <= j

\* The rule of the logged register_metadata call threw.
rule_raised ==
    \E i \in 1..Len(last.events) :
        last.events[i] = Error("Unknown metadata tag", last.args[1])

\* C18: a call of register_metadata applies the rule to the key before it
\* evaluates any check; a null value has no check evaluated; the checks it
\* evaluates are those of the key from the first on, in insertion order:
\* in the context of a transaction or posting, all of them up to and
\* including the first assertion the value fails (which throws), a failed
\* warning check being logged and followed by the next check; without an
\* owning item the scope cannot be built and the call throws bad_get with
\* no check evaluated.
C18_RuleThenChecksInOrder ==
    last.op = "register_metadata" =>
        LET key == last.args[1]
            value == last.args[2]
            context == last.args[3]
            checks == tag_check_exprs[key]
            stop == first_failed_assertion(checks, value)
            count == Len(evaluated)
        IN  /\ last.events[1] = << "tag", key >>
            /\ \A i, j \in 1..Len(last.events) :
                   ( /\ last.events[i][1] \in {"warning", "error"}
                     /\ last.events[i][2] = "Unknown metadata tag"
                     /\ is_calc_event(last.events[j]) ) => i < j
            /\ \A i \in 1..count :
                   evaluated[i] = << "calc", key, checks[i][1], checks[i][2] >>
            /\ count <= Len(checks)
            /\ (is_null(value) \/ rule_raised) => count = 0
            /\ (~ is_null(value) /\ ~ rule_raised /\ context.which # 0) =>
                   /\ count = IF stop = 0 THEN Len(checks) ELSE stop
                   /\ stop # 0 <=> last.raised = "parse_error"
                   /\ \A i \in 1..count :
                          ( ~ Calc(checks[i][1], value) /\ checks[i][2] = "EXPR_WARNING" )
                              => \E j \in 1..Len(last.events) :
                                     last.events[j] = Warning("Metadata check failed", key)
            /\ (~ is_null(value) /\ ~ rule_raised /\ context.which = 0
                    /\ Len(checks) > 0) =>
                   /\ count = 0
                   /\ last.raised = "bad_get"
                   /\ key \in known_tags

\* The value fails a warning check and then an assertion on the same tag:
\* both were evaluated, the warning logged, and the assertion threw.
C18_Witness ==
    /\ last.op = "register_metadata"
    /\ last.args[2] = Value("STRING", "bad")
    /\ Len(tag_check_exprs["Project"]) >= 2
    /\ tag_check_exprs["Project"][1][2] = "EXPR_WARNING"
    /\ tag_check_exprs["Project"][2][2] = "EXPR_ASSERTION"
    /\ Len(evaluated) = 2
    /\ last.raised = "parse_error"
    /\ \E j \in 1..Len(last.events) :
           last.events[j] = Warning("Metadata check failed", "Project")

\* C19 as stated: a call of register_account without a posting never
\* faults; it returns the account the name resolves to (alias table, then
\* tree) and that account is known afterwards, whatever the alias table and
\* payees_for_unknown_accounts hold.
C19_DeclarationNeverFaults ==
    (last.op = "register_account" /\ last.args[2] = None) =>
        /\ last.raised # "fault"
        /\ last.ret = Some(last.pre.resolved)
        /\ last.pre.resolved \in account_flags

\* C20: no call removes a known account, commodity or tag or sets a fixed
\* flag back to false; a fixed flag becomes true only in a declaration of
\* its own kind (no posting, context.which() = 0) made while force_checking
\* is set; fixed_payees is never true.
C20_KnowledgeOnlyGrows ==
    [][/\ account_flags \subseteq account_flags'
       /\ commodity_flags \subseteq commodity_flags'
       /\ known_tags \subseteq known_tags'
       /\ fixed_accounts => fixed_accounts'
       /\ fixed_commodities => fixed_commodities'
       /\ fixed_metadata => fixed_metadata'
       /\ (~ fixed_accounts /\ fixed_accounts') =>
              /\ last'.op = "register_account"
              /\ last'.args[2] = None
              /\ force_checking
       /\ (~ fixed_commodities /\ fixed_commodities') =>
              /\ last'.op = "register_commodity"
              /\ last'.args[2].which = 0
              /\ force_checking
       /\ (~ fixed_metadata /\ fixed_metadata') =>
              /\ last'.op = "register_metadata"
              /\ last'.args[3].which = 0
              /\ force_checking
       /\ ~ fixed_payees']_vars

\* The tags were fixed by a declaration, accounts and commodities were
\* learned from cleared items and never fixed, and after an add_xact, a
\* register_payee with a mapping and a remove_xact all of it is still so.
C20_Witness ==
    /\ last.op = "remove_xact"
    /\ last.ret = Some(TRUE)
    /\ Len(payee_mappings) > 0
    /\ fixed_metadata
    /\ ~ fixed_accounts
    /\ ~ fixed_commodities
    /\ ~ fixed_payees
    /\ Account("Food") \in account_flags
    /\ "EUR" \in commodity_flags
    /\ "Project" \in known_tags
====
